---- MODULE Spec2Model ----
(***************************************************************************)
(* A model of the uzbekistan Django plugin: the settings accessor, the     *)
(* memoized enabled-set resolvers, the cache health check, the conditional *)
(* class importer (uzbekistan/dynamic_importer.py) and the populate        *)
(* management command (management/commands/populate_uzbekistan.py).        *)
(*                                                                         *)
(* Python strings that go through str.lower() / str.title() are sequences  *)
(* of ASCII codes, so that the conversions are computed, not assumed.      *)
(***************************************************************************)
EXTENDS Integers, Sequences, FiniteSets, TLC

VARIABLES
    settings,     \* django.conf.settings.UZBEKISTAN: [kind, conf]
    memoModels,   \* lru_cache slot of get_enabled_models
    memoViews,    \* lru_cache slot of get_enabled_views
    basisModels,  \* history: the settings read by the call that filled memoModels
    basisViews,   \* history: the settings read by the call that filled memoViews
    last,         \* the most recent call and its outcome
    memoCache,    \* lru_cache slot of get_cache_settings
    backend,      \* how the configured cache backend behaves
    store,        \* the entries of the cache backend: key -> value
    threads,      \* per thread: its call of get_cache_settings()
    passed,       \* history: a round trip succeeded since the last cache_clear()
    db,           \* the tables of Region, District and Village
    nextId,       \* the next primary key the database hands out
    fixture,      \* fixtures/regions.yaml and fixtures/districts.yaml
    cmd,          \* the run of populate_uzbekistan in progress, or the last one
    prev,         \* history: the run before it
    runs          \* the number of runs started

resolverVars == <<memoModels, memoViews, basisModels, basisViews, last>>
cacheVars == <<memoCache, backend, store, threads, passed>>

dbVars == <<db, nextId, fixture, cmd, prev, runs>>

vars == <<settings, memoModels, memoViews, basisModels, basisViews, last,
          memoCache, backend, store, threads, passed,
          db, nextId, fixture, cmd, prev, runs>>

---------------------------------------------------------------------------
(* Python strings as ASCII code sequences.                                 *)

region   == <<114, 101, 103, 105, 111, 110>>            \* "region"
district == <<100, 105, 115, 116, 114, 105, 99, 116>>   \* "district"
village  == <<118, 105, 108, 108, 97, 103, 101>>        \* "village"
District == <<68, 105, 115, 116, 114, 105, 99, 116>>    \* "District"
VILLAGE  == <<86, 73, 76, 76, 65, 71, 69>>              \* "VILLAGE"
Region   == <<82, 101, 103, 105, 111, 110>>             \* "Region"
Village  == <<86, 105, 108, 108, 97, 103, 101>>         \* "Village"

\* "ListAPIView", the suffix of the conventional class name
ListAPIView == <<76, 105, 115, 116, 65, 80, 73, 86, 105, 101, 119>>

IsUpper(c) == c >= 65 /\ c =< 90
IsLower(c) == c >= 97 /\ c =< 122
IsCased(c) == IsUpper(c) \/ IsLower(c)
LowerChar(c) == IF IsUpper(c) THEN c + 32 ELSE c
UpperChar(c) == IF IsLower(c) THEN c - 32 ELSE c

\* str.lower()
Lower(s) == [i \in 1..Len(s) |-> LowerChar(s[i])]

\* Mutant of Title: the item name is used without capitalising it.
TitleLowerOnly(s) == [i \in 1..Len(s) |-> LowerChar(s[i])]

\* str.title(): a cased character is upper-cased when the character before it
\* is not cased (or it is the first), lower-cased otherwise.
Title(s) ==
    [i \in 1..Len(s) |->
        IF i > 1 /\ IsCased(s[i - 1]) THEN LowerChar(s[i]) ELSE UpperChar(s[i])]

\* f"{item_name.title()}ListAPIView"
ClassName(item) == Title(item) \o ListAPIView

---------------------------------------------------------------------------
(* Outcomes of a Python call.                                              *)

Return(v) == [status |-> "return", value |-> v]
Raise(e)  == [status |-> "raise", exc |-> e]

\* No call of the resolver or the importer made yet.
NoCall == [op |-> "none"]

\* Python truthiness of a flag value (bool is an int: False = 0, True = 1).
Truthy(v) == v # 0

\* The empty dict {} passed as a default.
EmptyDict == <<>>

---------------------------------------------------------------------------
(* Settings accessor.                                                      *)

\* Mutant of get_uzbekistan_setting: the root object is tested for falsiness
\* (`if not settings.UZBEKISTAN`), so that an empty UZBEKISTAN = {} raises too.
get_uzbekistan_setting_falsy(s, setting_name, default) ==
    IF s.kind = "missing" \/ s.kind = "none" \/ s.conf = <<>>
    THEN Raise("ImproperlyConfigured")
    ELSE Return(IF setting_name \in DOMAIN s.conf
                THEN s.conf[setting_name]
                ELSE default)

\* get_uzbekistan_setting(setting_name, default) on the root object s.
get_uzbekistan_setting(s, setting_name, default) ==
    IF s.kind = "missing" \/ s.kind = "none"
    THEN Raise("ImproperlyConfigured")
    ELSE Return(IF setting_name \in DOMAIN s.conf
                THEN s.conf[setting_name]
                ELSE default)

\* Mutant of EnabledNames: the `if enabled` filter is dropped.
EnabledNamesNoFilter(items) == {Lower(name) : name \in DOMAIN items}

\* {name.lower() for name, enabled in items.items() if enabled}
EnabledNames(items) ==
    {Lower(name) : name \in {n \in DOMAIN items : Truthy(items[n])}}

\* The body of get_enabled_models / get_enabled_views (without the memo).
ComputeEnabled(s, key) ==
    LET r == get_uzbekistan_setting(s, key, EmptyDict)
    IN  IF r.status = "raise" THEN r ELSE Return(EnabledNames(r.value))

\* functools.lru_cache on a zero-argument function: one slot, filled by a call
\* that returns, left alone by a call that raises.
EmptyMemo == [full |-> FALSE, value |-> {}]

\* Mutant of MemoCall: the slot is never read, every call recomputes.
MemoCallNoHit(memo, computed) ==
    IF computed.status = "return"
    THEN [out |-> computed,
          memo |-> [full |-> TRUE, value |-> computed.value],
          hit |-> FALSE]
    ELSE [out |-> computed, memo |-> memo, hit |-> FALSE]

MemoCall(memo, computed) ==
    IF memo.full
    THEN [out |-> Return(memo.value), memo |-> memo, hit |-> TRUE]
    ELSE IF computed.status = "return"
         THEN [out |-> computed,
               memo |-> [full |-> TRUE, value |-> computed.value],
               hit |-> FALSE]
         ELSE [out |-> computed, memo |-> memo, hit |-> FALSE]

get_enabled_models(s, memo) == MemoCall(memo, ComputeEnabled(s, "models"))
get_enabled_views(s, memo)  == MemoCall(memo, ComputeEnabled(s, "views"))

---------------------------------------------------------------------------
(* Conditional class importer.                                             *)

\* A class of a module: whether it has a `model` attribute, whether that
\* attribute has a __name__ (a model class has, None or a string has not), and
\* the __name__.
Cls(hasModel, hasName, modelName) ==
    [hasModel |-> hasModel, hasName |-> hasName, modelName |-> modelName]

RegionListAPIView   == <<82, 101, 103, 105, 111, 110>> \o ListAPIView
DistrictListAPIView == <<68, 105, 115, 116, 114, 105, 99, 116>> \o ListAPIView
VillageListAPIView  == <<86, 105, 108, 108, 97, 103, 101>> \o ListAPIView
\* "villageListAPIView": an attribute that differs from the convention in case
villageListAPIView  == <<118, 105, 108, 108, 97, 103, 101>> \o ListAPIView

\* What import_module(name) finds: the outcome of the import and, when it
\* succeeds, the module's attributes (class name -> class).
ModuleTable ==
    [m \in {"uzbekistan.views", "invalid.module", "broken.module",
            "views.partial", "views.crossed", "views.nameless"} |->
        CASE m = "uzbekistan.views" ->
                [import |-> "ok",
                 attrs |-> (RegionListAPIView   :> Cls(TRUE, TRUE, Region)) @@
                           (DistrictListAPIView :> Cls(TRUE, TRUE, District)) @@
                           (VillageListAPIView  :> Cls(TRUE, TRUE, Village))]
          [] m = "invalid.module" ->      \* no such module: ModuleNotFoundError
                [import |-> "ImportError", attrs |-> <<>>]
          [] m = "broken.module" ->       \* its top level raises, not an ImportError
                [import |-> "OtherError", attrs |-> <<>>]
          [] m = "views.partial" ->       \* a class without model, a misnamed class
                [import |-> "ok",
                 attrs |-> (RegionListAPIView   :> Cls(TRUE, TRUE, Region)) @@
                           (DistrictListAPIView :> Cls(FALSE, FALSE, <<>>)) @@
                           (villageListAPIView  :> Cls(TRUE, TRUE, Village))]
          [] m = "views.crossed" ->       \* views bound to another item's model
                [import |-> "ok",
                 attrs |-> (RegionListAPIView   :> Cls(TRUE, TRUE, District)) @@
                           (DistrictListAPIView :> Cls(TRUE, TRUE, Region)) @@
                           (VillageListAPIView  :> Cls(TRUE, TRUE, Village))]
          [] m = "views.nameless" ->      \* model = None on one class
                [import |-> "ok",
                 attrs |-> (RegionListAPIView   :> Cls(TRUE, FALSE, <<>>)) @@
                           (DistrictListAPIView :> Cls(TRUE, TRUE, District)) @@
                           (VillageListAPIView  :> Cls(TRUE, TRUE, Village))]]

ModuleNames == DOMAIN ModuleTable
ClassTypes == {"views", "models", "serializers"}

\* The orders in which a Python set may be iterated.
Orders(S) ==
    {f \in [1..Cardinality(S) -> S] : \A x \in S : \E i \in DOMAIN f : f[i] = x}

\* Mutant of ItemDecision: the check of the model against the enabled models
\* is dropped.
ItemDecisionNoModelCheck(attrs, item_name, enabled_models, s, memoV, class_type) ==
    LET class_name == ClassName(item_name)
    IN  IF class_name \notin DOMAIN attrs THEN "skip"
        ELSE LET cls == attrs[class_name]
             IN  IF ~cls.hasModel THEN "skip"
                 ELSE IF ~cls.hasName THEN "raise"
                 ELSE IF class_type = "views"
                         /\ item_name \notin get_enabled_views(s, memoV).out.value
                      THEN "skip"
                 ELSE "yield"

\* The body of the for loop for one item: "skip" (continue), "yield" or
\* "raise" (the except clauses: DynamicImportError).
ItemDecision(attrs, item_name, enabled_models, s, memoV, class_type) ==
    LET class_name == ClassName(item_name)
    IN  IF class_name \notin DOMAIN attrs THEN "skip"
        ELSE LET cls == attrs[class_name]
             IN  IF ~cls.hasModel THEN "skip"
                 ELSE IF ~cls.hasName THEN "raise"
                 ELSE IF Lower(cls.modelName) \notin enabled_models THEN "skip"
                 ELSE IF class_type = "views"
                         /\ item_name \notin get_enabled_views(s, memoV).out.value
                      THEN "skip"
                 ELSE "yield"

\* The for loop over the enabled items in iteration order `order`, from
\* position i on, with `acc` the classes yielded so far.
RECURSIVE ImportLoop(_, _, _, _, _, _, _, _)
ImportLoop(attrs, order, i, enabled_models, s, memoV, class_type, acc) ==
    IF i > Len(order) THEN [out |-> Return("exhausted"), yielded |-> acc]
    ELSE LET item_name == order[i]
             d == ItemDecision(attrs, item_name, enabled_models, s, memoV, class_type)
         IN  IF d = "raise"
             THEN [out |-> Raise("DynamicImportError"), yielded |-> acc]
             ELSE ImportLoop(attrs, order, i + 1, enabled_models, s, memoV, class_type,
                     IF d = "yield"
                     THEN Append(acc, [attr |-> ClassName(item_name),
                                       model |-> attrs[ClassName(item_name)].modelName])
                     ELSE acc)

\* What the except clause around import_module does with the import outcome.
ImportFailure(import) ==
    IF import = "ImportError" THEN Raise("DynamicImportError") ELSE Raise(import)

\* import_conditional_classes(module_name, class_type), consumed to its end:
\* the set of possible results, one per iteration order of the enabled set.
import_conditional_classes(s, memoM, memoV, module_name, class_type) ==
    LET mod == ModuleTable[module_name]
        items == IF class_type = "views"
                 THEN get_enabled_views(s, memoV)
                 ELSE get_enabled_models(s, memoM)
        memoV1 == IF class_type = "views" THEN items.memo ELSE memoV
        memoM0 == IF class_type = "views" THEN memoM ELSE items.memo
        models == get_enabled_models(s, memoM0)
    IN  IF mod.import # "ok"
        THEN {[out |-> ImportFailure(mod.import), yielded |-> <<>>,
               memoModels |-> memoM, memoViews |-> memoV]}
        ELSE IF items.out.status = "raise"
        THEN {[out |-> items.out, yielded |-> <<>>,
               memoModels |-> memoM0, memoViews |-> memoV1]}
        ELSE IF models.out.status = "raise"
        THEN {[out |-> models.out, yielded |-> <<>>,
               memoModels |-> models.memo, memoViews |-> memoV1]}
        ELSE {[out |-> r.out, yielded |-> r.yielded,
               memoModels |-> models.memo, memoViews |-> memoV1] :
                r \in {ImportLoop(mod.attrs, order, 1, models.out.value, s, memoV1,
                                  class_type, <<>>) :
                          order \in Orders(items.out.value)}}

---------------------------------------------------------------------------
(* Configurations the host application may supply.                         *)

\* All mappings from a subset of K to V (a dict with keys among K).
Maps(K, V) == UNION {[D -> V] : D \in SUBSET K}

FlagValues == {0, 1}                       \* False, True
ModelKeys == {region, District, village}   \* keys of UZBEKISTAN["models"]
ViewKeys  == {region, district, VILLAGE}   \* keys of UZBEKISTAN["views"]

MissingRoot == [kind |-> "missing", conf |-> <<>>]   \* no UZBEKISTAN attribute
NoneRoot    == [kind |-> "none", conf |-> <<>>]      \* UZBEKISTAN = None
DictRoot(conf) == [kind |-> "dict", conf |-> conf]

\* The flag mappings over the keys K: every key present, one key present, or
\* none (the empty dict).
FlagMaps(K) ==
    {m \in Maps(K, FlagValues) : Cardinality(DOMAIN m) \in {0, 1, Cardinality(K)}}

\* UZBEKISTAN objects with models / views mappings, each possibly absent.
ResolverConfs ==
    {[k \in {"models", "views"} |-> IF k = "models" THEN m ELSE v] :
        m \in FlagMaps(ModelKeys), v \in FlagMaps(ViewKeys)}
    \cup {[k \in {"models"} |-> m] : m \in FlagMaps(ModelKeys)}
    \cup {[k \in {"views"} |-> v] : v \in FlagMaps(ViewKeys)}
    \cup {<<>>}

ResolverSettings == {MissingRoot, NoneRoot} \cup {DictRoot(c) : c \in ResolverConfs}

---------------------------------------------------------------------------
(* History of the memo slots: the settings current at the first call, and  *)
(* at the first call that returned, since the most recent cache_clear().   *)

NoBasis == [known |-> FALSE, settings |-> MissingRoot]
Basis(s) == [known |-> TRUE, settings |-> s]
EmptyHistory == [call |-> NoBasis, ret |-> NoBasis]

Observe(h, s, out) ==
    [call |-> IF h.call.known THEN h.call ELSE Basis(s),
     ret  |-> IF h.ret.known \/ out.status # "return" THEN h.ret ELSE Basis(s)]

---------------------------------------------------------------------------
(* The database and the command before any run.                            *)

EmptyDb == [regions |-> {}, districts |-> {}, villages |-> {}]

\* A fixture file with its rows, and a fixture file that does not exist.
FixtureFile(rows) == [exists |-> TRUE, rows |-> rows]
NoFixtureFile == [exists |-> FALSE, rows |-> <<>>]

\* No run of the command yet.
NoRun ==
    [pc |-> "idle", force |-> FALSE, mtp |-> {}, i |-> 0, sample |-> 0,
     snapshot |-> EmptyDb, out |-> {}, wrote |-> FALSE, raised |-> FALSE,
     escaped |-> FALSE,
     created |-> [regions |-> 0, districts |-> 0, villages |-> 0],
     result |-> "none"]

\* The entities that hold at least one row in the tables d.
NonEmpty(d) ==
    {e \in {region, district, village} :
        \/ e = region /\ d.regions # {}
        \/ e = district /\ d.districts # {}
        \/ e = village /\ d.villages # {}}

\* What is remembered of a run once the next one starts: its options, the
\* entities that held rows when it started, what it printed and how it ended.
Summary(c) ==
    [force |-> c.force, mtp |-> c.mtp, pre |-> NonEmpty(c.snapshot),
     out |-> c.out, wrote |-> c.wrote, result |-> c.result]

\* The database part of the state while nothing uses it.
DbUnused ==
    /\ db = EmptyDb
    /\ nextId = 1
    /\ fixture = [regions |-> NoFixtureFile, districts |-> NoFixtureFile]
    /\ cmd = NoRun
    /\ prev = Summary(NoRun)
    /\ runs = 0

---------------------------------------------------------------------------
(* Cache health checker: get_cache_settings().                             *)

Threads == {"t1", "t2"}

\* Mutant of DefaultCacheSettings: the default is a disabled cache.
DefaultCacheSettingsDisabled == [enabled |-> 0, timeout |-> 3600]

\* The default passed to get_uzbekistan_setting("cache", ...): enabled is True.
DefaultCacheSettings ==
    [enabled |-> 1, timeout |-> 3600, key_prefix |-> "uzbekistan"]

\* f"{key_prefix}_cache_health_check" with
\* key_prefix = cache_settings.get("key_prefix", "uzbekistan")
TestKey(cache_settings) ==
    [prefix |-> IF "key_prefix" \in DOMAIN cache_settings
                THEN cache_settings.key_prefix
                ELSE "uzbekistan",
     suffix |-> "_cache_health_check"]

TestValue == "alive"

\* How the backend behaves: "working" stores and returns entries; "dummy"
\* (django's DummyCache) accepts every operation and stores nothing; "down"
\* raises on every operation.
BackendModes == {"working", "dummy", "down"}

\* cache.set(key, value, timeout=60) on the entries st
BackendSet(mode, st, key, value) ==
    IF mode = "working"
    THEN [k \in DOMAIN st \cup {key} |-> IF k = key THEN value ELSE st[k]]
    ELSE st

\* cache.get(key): the value, or None
BackendGet(mode, st, key) ==
    IF mode = "working" /\ key \in DOMAIN st THEN st[key] ELSE "None"

\* cache.delete(key)
BackendDelete(mode, st, key) ==
    IF mode = "working" THEN [k \in DOMAIN st \ {key} |-> st[k]] ELSE st

\* Mutant of HealthVerdict: the value read back is not compared.
HealthVerdictNoCompare(cache_data, cache_settings) == Return(cache_settings)

\* Lines 92-96: the comparison of the value read back, and the return. (The
\* CacheIncorrectlyConfigured raised at 93 is caught at 94 and raised again as
\* CacheIncorrectlyConfigured.)
HealthVerdict(cache_data, cache_settings) ==
    IF cache_data # TestValue
    THEN Raise("CacheIncorrectlyConfigured")
    ELSE Return(cache_settings)

\* A thread that is not calling get_cache_settings() and has not called it.
IdleThread ==
    [pc |-> "idle", cs |-> <<>>, data |-> "unset", ops |-> <<>>,
     failed |-> "none", out |-> [status |-> "none"], hit |-> FALSE]

Finish(th, out) == [th EXCEPT !.pc = "idle", !.out = out]

\* A thread calls get_cache_settings(): the lru_cache lookup and, on a miss,
\* lines 77-82.
CacheCall(t) ==
    /\ threads[t].pc = "idle"
    /\ LET r == get_uzbekistan_setting(settings, "cache", DefaultCacheSettings)
           fresh == IdleThread
       IN  IF memoCache.full
           THEN /\ threads' = [threads EXCEPT ![t] =
                        [fresh EXCEPT !.out = Return(memoCache.value), !.hit = TRUE]]
                /\ UNCHANGED memoCache
           ELSE IF r.status = "raise"
           THEN /\ threads' = [threads EXCEPT ![t] = Finish(fresh, r)]
                /\ UNCHANGED memoCache
           ELSE IF "enabled" \notin DOMAIN r.value      \* cache_settings["enabled"]
           THEN /\ threads' = [threads EXCEPT ![t] =
                        Finish([fresh EXCEPT !.cs = r.value], Raise("KeyError"))]
                /\ UNCHANGED memoCache
           ELSE IF ~Truthy(r.value.enabled)
           THEN /\ threads' = [threads EXCEPT ![t] =
                        Finish([fresh EXCEPT !.cs = r.value], Return(r.value))]
                /\ memoCache' = [full |-> TRUE, value |-> r.value]
           ELSE /\ threads' = [threads EXCEPT ![t] =
                        [fresh EXCEPT !.pc = "set", !.cs = r.value]]
                /\ UNCHANGED memoCache
    /\ UNCHANGED <<settings, resolverVars, dbVars, backend, store, passed>>

\* A backend operation that raises: the except clause at 94-95.
OpFails(t, op) ==
    /\ threads' = [threads EXCEPT ![t] =
            Finish([@ EXCEPT !.ops = Append(@, op), !.failed = op],
                   Raise("CacheIncorrectlyConfigured"))]
    /\ UNCHANGED store

\* Line 88: cache.set(test_key, test_value, timeout=60)
CacheSet(t) ==
    /\ threads[t].pc = "set"
    /\ IF backend = "down"
       THEN OpFails(t, "set")
       ELSE /\ store' = BackendSet(backend, store, TestKey(threads[t].cs), TestValue)
            /\ threads' = [threads EXCEPT ![t].pc = "get",
                                          ![t].ops = Append(@, "set")]
    /\ UNCHANGED <<settings, resolverVars, dbVars, memoCache, backend, passed>>

\* Line 89: cache_data = cache.get(test_key)
CacheGet(t) ==
    /\ threads[t].pc = "get"
    /\ IF backend = "down"
       THEN OpFails(t, "get")
       ELSE /\ threads' = [threads EXCEPT
                    ![t].pc = "delete",
                    ![t].ops = Append(@, "get"),
                    ![t].data = BackendGet(backend, store, TestKey(threads[t].cs))]
            /\ UNCHANGED store
    /\ UNCHANGED <<settings, resolverVars, dbVars, memoCache, backend, passed>>

\* Line 90: cache.delete(test_key)
CacheDelete(t) ==
    /\ threads[t].pc = "delete"
    /\ IF backend = "down"
       THEN OpFails(t, "delete")
       ELSE /\ store' = BackendDelete(backend, store, TestKey(threads[t].cs))
            /\ threads' = [threads EXCEPT ![t].pc = "check",
                                          ![t].ops = Append(@, "delete")]
    /\ UNCHANGED <<settings, resolverVars, dbVars, memoCache, backend, passed>>

\* Mutant of MemoStore: nothing is memoized.
MemoStoreNever(memo, out) == memo

\* lru_cache: the result of a call that returned is stored; a call that raised
\* stores nothing.
MemoStore(memo, out) ==
    IF out.status = "return" THEN [full |-> TRUE, value |-> out.value] ELSE memo

\* Lines 92-96 and the lru_cache store of a result that was returned.
CacheCheck(t) ==
    /\ threads[t].pc = "check"
    /\ LET out == HealthVerdict(threads[t].data, threads[t].cs)
       IN  /\ threads' = [threads EXCEPT ![t] = Finish(@, out)]
           /\ memoCache' = MemoStore(memoCache, out)
           /\ passed' = (passed \/ out.status = "return")
    /\ UNCHANGED <<settings, resolverVars, dbVars, backend, store>>

\* get_cache_settings.cache_clear()
CacheClearCache ==
    /\ memoCache.full
    /\ memoCache' = [full |-> FALSE, value |-> <<>>]
    /\ passed' = FALSE
    /\ UNCHANGED <<settings, resolverVars, dbVars, backend, store, threads>>

\* The backend starts or stops working (a server goes down, comes back).
BackendChange ==
    /\ backend' \in BackendModes \ {backend}
    /\ store' = IF backend' = "working" THEN store ELSE <<>>
    /\ UNCHANGED <<settings, resolverVars, dbVars, memoCache, threads, passed>>

\* The cache sub-configurations: none, enabled, disabled, with and without
\* key_prefix, without "enabled".
CacheConfs ==
    {<<>>,
     [cache |-> [enabled |-> 1, timeout |-> 300]],
     [cache |-> [enabled |-> 1, timeout |-> 3600, key_prefix |-> "uzbekistan"]],
     [cache |-> [enabled |-> 0, timeout |-> 3600]],
     [cache |-> [timeout |-> 300]]}

CacheSettings == {MissingRoot} \cup {DictRoot(c) : c \in CacheConfs}

\* The cache part of the state while nothing uses it.
CacheUnused ==
    /\ memoCache = [full |-> FALSE, value |-> <<>>]
    /\ backend = "working"
    /\ store = <<>>
    /\ threads = [t \in Threads |-> IdleThread]
    /\ passed = FALSE

\* The resolver part of the state while nothing uses it.
ResolverUnused ==
    /\ memoModels = EmptyMemo
    /\ memoViews = EmptyMemo
    /\ basisModels = EmptyHistory
    /\ basisViews = EmptyHistory
    /\ last = NoCall

InitCache ==
    /\ settings \in CacheSettings
    /\ memoCache = [full |-> FALSE, value |-> <<>>]
    /\ backend \in BackendModes
    /\ store = <<>>
    /\ threads = [t \in Threads |-> IdleThread]
    /\ passed = FALSE
    /\ ResolverUnused
    /\ DbUnused

NextCache ==
    \/ \E t \in Threads : CacheCall(t)
    \/ \E t \in Threads : CacheSet(t)
    \/ \E t \in Threads : CacheGet(t)
    \/ \E t \in Threads : CacheDelete(t)
    \/ \E t \in Threads : CacheCheck(t)
    \/ CacheClearCache
    \/ BackendChange

SpecCache == InitCache /\ [][NextCache]_vars

\* The same calls against a backend that works from start to end.
InitCacheWorking == InitCache /\ backend = "working"

NextCacheWorking ==
    \/ \E t \in Threads : CacheCall(t)
    \/ \E t \in Threads : CacheSet(t)
    \/ \E t \in Threads : CacheGet(t)
    \/ \E t \in Threads : CacheDelete(t)
    \/ \E t \in Threads : CacheCheck(t)
    \/ CacheClearCache

SpecCacheWorking == InitCacheWorking /\ [][NextCacheWorking]_vars

---------------------------------------------------------------------------
(* Populate command: populate_uzbekistan.                                  *)

MaxRuns == 2     \* runs of the command in one behaviour

\* DynamicImporter.get_setting: the settings accessor.
DynamicImporter_get_setting(s, setting_name, default) ==
    get_uzbekistan_setting(s, setting_name, default)

\* DynamicImporter.get_enabled_items("models"): the enabled-model set.
DynamicImporter_get_enabled_items(s, kind) == ComputeEnabled(s, kind)

\* Mutant of PrepopulateEnabled: the flag is read as set.
PrepopulateEnabledAlways(s) ==
    LET r == DynamicImporter_get_setting(s, "prepopulate", EmptyDict)
    IN  IF r.status = "raise" THEN r ELSE Return(1)

\* Line 37: get_setting('prepopulate', {}).get('enabled', False)
PrepopulateEnabled(s) ==
    LET r == DynamicImporter_get_setting(s, "prepopulate", EmptyDict)
    IN  IF r.status = "raise" THEN r
        ELSE Return(IF "enabled" \in DOMAIN r.value THEN r.value.enabled ELSE 0)

\* Lines 48-51: the models to populate; specific_models = {} is no --models.
ModelsToPopulate(specific_models, enabled_models) ==
    IF specific_models # {}
    THEN specific_models \cap enabled_models
    ELSE enabled_models

\* Rows referring to a parent that is gone are deleted with it (on_delete).
Cascade(d) ==
    LET districts == {x \in d.districts : x.region \in {r.id : r \in d.regions}}
    IN  [regions |-> d.regions,
         districts |-> districts,
         villages |-> {v \in d.villages : v.district \in {x.id : x \in districts}}]

\* Mutant of DeleteAllRegions: the forced delete is dropped.
DeleteAllRegionsNothing(d) == d

\* Region.objects.all().delete(), District..., Village...
DeleteAllRegions(d) == Cascade([d EXCEPT !.regions = {}])
DeleteAllDistricts(d) == Cascade([d EXCEPT !.districts = {}])
DeleteAllVillages(d) == [d EXCEPT !.villages = {}]

\* Mutant of GetOrCreate: the row is created without looking for a match.
GetOrCreateNoLookup(rows, matches, row) ==
    [rows |-> rows \cup {row}, created |-> TRUE, raised |-> FALSE]

\* QuerySet.get_or_create on the rows `rows`: `matches` are the rows the lookup
\* finds, `row` the row to create when there is none.
GetOrCreate(rows, matches, row) ==
    IF matches = {}
    THEN [rows |-> rows \cup {row}, created |-> TRUE, raised |-> FALSE]
    ELSE IF Cardinality(matches) = 1
    THEN [rows |-> rows, created |-> FALSE, raised |-> FALSE]
    ELSE [rows |-> rows, created |-> FALSE, raised |-> TRUE]  \* MultipleObjectsReturned

\* Mutant of SkipExisting: the check for existing rows is dropped.
SkipExistingNever(force, rows) == FALSE

\* `if not force and X.objects.exists()`
SkipExisting(force, rows) == ~force /\ rows # {}

\* Mutant of Rollback: no transaction, what was written stays.
RollbackNothing(current, snapshot) == current

\* Leaving transaction.atomic() with an exception: the tables as at its start.
Rollback(current, snapshot) == snapshot

\* The two sample villages of populate_villages.
SampleVillages == <<"Mirobod", "Yunusobod">>

\* Inside `with transaction.atomic()`.
InTransaction(c) ==
    c.pc \in {"regions", "region_rows", "districts", "district_rows",
              "villages", "village_rows", "commit"}

\* --models: none, or some of region, district, village.
ModelsOptions == {{}, {region}, {district}, {village}, {region, district}}

\* handle(): lines 33-59, up to the transaction.
PopulateHandle ==
    \E force \in BOOLEAN, specific_models \in ModelsOptions :
        /\ cmd.pc = "idle"
        /\ runs < MaxRuns
        /\ runs' = runs + 1
        /\ prev' = Summary(cmd)
        /\ LET start == [NoRun EXCEPT !.force = force, !.snapshot = db]
               enabled == PrepopulateEnabled(settings)
               items == DynamicImporter_get_enabled_items(settings, "models")
               mtp == ModelsToPopulate(specific_models, items.value)
           IN  cmd' =
                IF enabled.status = "raise"
                THEN [start EXCEPT !.result = enabled.exc]
                ELSE IF ~Truthy(enabled.value) /\ ~force
                THEN [start EXCEPT !.out = {"disabled"}, !.result = "returned"]
                ELSE IF mtp = {}
                THEN [start EXCEPT !.out = {"no_models"}, !.result = "returned"]
                ELSE [start EXCEPT !.out = {"populating"}, !.mtp = mtp,
                                   !.pc = "regions"]
        /\ UNCHANGED <<settings, resolverVars, cacheVars, db, nextId, fixture>>

\* An exception leaves the transaction: rollback, then CommandError (78-79).
Abort(c) ==
    /\ db' = Rollback(db, c.snapshot)
    /\ cmd' = [c EXCEPT !.pc = "idle", !.raised = TRUE, !.escaped = TRUE,
                        !.result = "CommandError"]

\* populate_regions, lines 83-100: the checks and the forced delete.
PopulateRegions ==
    /\ cmd.pc = "regions"
    /\ IF region \notin cmd.mtp
       THEN cmd' = [cmd EXCEPT !.pc = "districts"] /\ UNCHANGED db
       ELSE IF SkipExisting(cmd.force, db.regions)
       THEN /\ cmd' = [cmd EXCEPT !.pc = "districts",
                                  !.out = @ \cup {"regions_exist"}]
            /\ UNCHANGED db
       ELSE IF ~fixture.regions.exists
       THEN /\ cmd' = [cmd EXCEPT !.pc = "districts",
                                  !.out = @ \cup {"regions_file_missing"}]
            /\ UNCHANGED db
       ELSE /\ db' = IF cmd.force THEN DeleteAllRegions(db) ELSE db
            /\ cmd' = [cmd EXCEPT !.pc = "region_rows", !.i = 1,
                                  !.wrote = @ \/ (cmd.force /\ db.regions # {})]
    /\ UNCHANGED <<settings, resolverVars, cacheVars, nextId, fixture, prev, runs>>

\* populate_regions, lines 103-115: one row of the loop, or its end.
PopulateRegionRow ==
    /\ cmd.pc = "region_rows"
    /\ IF cmd.i > Len(fixture.regions.rows)
       THEN /\ cmd' = [cmd EXCEPT !.pc = "districts",
                                  !.out = @ \cup {"created_regions"}]
            /\ UNCHANGED <<db, nextId>>
       ELSE LET name == fixture.regions.rows[cmd.i].name_uz
                g == GetOrCreate(db.regions,
                                 {r \in db.regions : r.name_uz = name},
                                 [id |-> nextId, name_uz |-> name])
            IN  IF g.raised
                THEN Abort(cmd) /\ UNCHANGED nextId
                ELSE /\ db' = [db EXCEPT !.regions = g.rows]
                     /\ nextId' = IF g.created THEN nextId + 1 ELSE nextId
                     /\ cmd' = [cmd EXCEPT
                            !.i = @ + 1,
                            !.wrote = @ \/ g.created,
                            !.created.regions = IF g.created THEN @ + 1 ELSE @]
    /\ UNCHANGED <<settings, resolverVars, cacheVars, fixture, prev, runs>>

\* populate_districts, lines 119-136: the checks and the forced delete.
PopulateDistricts ==
    /\ cmd.pc = "districts"
    /\ IF district \notin cmd.mtp
       THEN cmd' = [cmd EXCEPT !.pc = "villages"] /\ UNCHANGED db
       ELSE IF SkipExisting(cmd.force, db.districts)
       THEN /\ cmd' = [cmd EXCEPT !.pc = "villages",
                                  !.out = @ \cup {"districts_exist"}]
            /\ UNCHANGED db
       ELSE IF ~fixture.districts.exists
       THEN /\ cmd' = [cmd EXCEPT !.pc = "villages",
                                  !.out = @ \cup {"districts_file_missing"}]
            /\ UNCHANGED db
       ELSE /\ db' = IF cmd.force THEN DeleteAllDistricts(db) ELSE db
            /\ cmd' = [cmd EXCEPT !.pc = "district_rows", !.i = 1,
                                  !.wrote = @ \/ (cmd.force /\ db.districts # {})]
    /\ UNCHANGED <<settings, resolverVars, cacheVars, nextId, fixture, prev, runs>>

\* Mutant of RegionsNamed: the lookup ignores the name.
RegionsNamedAny(regions, name) == regions

\* Line 141: the rows Region.objects.get(name_uz=name) looks among.
RegionsNamed(regions, name) == {r \in regions : r.name_uz = name}

\* populate_districts, lines 139-160: one row of the loop, or its end.
PopulateDistrictRow ==
    /\ cmd.pc = "district_rows"
    /\ IF cmd.i > Len(fixture.districts.rows)
       THEN /\ cmd' = [cmd EXCEPT !.pc = "villages",
                                  !.out = @ \cup {"created_districts"}]
            /\ UNCHANGED <<db, nextId>>
       ELSE LET row == fixture.districts.rows[cmd.i]
                found == RegionsNamed(db.regions, row.region_name_uz)
            IN  IF found = {}                      \* Region.DoesNotExist, caught
                THEN /\ cmd' = [cmd EXCEPT !.i = @ + 1, !.raised = TRUE,
                                           !.out = @ \cup {"region_not_found"}]
                     /\ UNCHANGED <<db, nextId>>
                ELSE IF Cardinality(found) > 1     \* MultipleObjectsReturned
                THEN Abort(cmd) /\ UNCHANGED nextId
                ELSE LET reg == CHOOSE r \in found : TRUE
                         g == GetOrCreate(db.districts,
                                {x \in db.districts :
                                    x.name_uz = row.name_uz /\ x.region = reg.id},
                                [id |-> nextId, name_uz |-> row.name_uz,
                                 region |-> reg.id])
                     IN  IF g.raised
                         THEN Abort(cmd) /\ UNCHANGED nextId
                         ELSE /\ db' = [db EXCEPT !.districts = g.rows]
                              /\ nextId' = IF g.created THEN nextId + 1 ELSE nextId
                              /\ cmd' = [cmd EXCEPT
                                    !.i = @ + 1,
                                    !.wrote = @ \/ g.created,
                                    !.created.districts = IF g.created THEN @ + 1 ELSE @]
    /\ UNCHANGED <<settings, resolverVars, cacheVars, fixture, prev, runs>>

\* populate_villages, lines 164-178: the check, the forced delete and the
\* choice of the sample district (District.objects.first(); 0 when there is
\* none).
PopulateVillages ==
    /\ cmd.pc = "villages"
    /\ IF village \notin cmd.mtp
       THEN cmd' = [cmd EXCEPT !.pc = "commit"] /\ UNCHANGED db
       ELSE IF SkipExisting(cmd.force, db.villages)
       THEN /\ cmd' = [cmd EXCEPT !.pc = "commit",
                                  !.out = @ \cup {"villages_exist"}]
            /\ UNCHANGED db
       ELSE /\ db' = IF cmd.force THEN DeleteAllVillages(db) ELSE db
            /\ \E sample \in {x.id : x \in db.districts} \cup {0} :
                /\ (sample = 0) = (db.districts = {})
                /\ cmd' = [cmd EXCEPT !.pc = "village_rows", !.i = 1,
                                      !.sample = sample,
                                      !.wrote = @ \/ (cmd.force /\ db.villages # {})]
    /\ UNCHANGED <<settings, resolverVars, cacheVars, nextId, fixture, prev, runs>>

\* populate_villages, lines 192-204: one sample village, or the end.
PopulateVillageRow ==
    /\ cmd.pc = "village_rows"
    /\ IF cmd.sample = 0 \/ cmd.i > Len(SampleVillages)
       THEN /\ cmd' = [cmd EXCEPT !.pc = "commit",
                                  !.out = @ \cup {"created_villages"}]
            /\ UNCHANGED <<db, nextId>>
       ELSE LET name == SampleVillages[cmd.i]
                g == GetOrCreate(db.villages,
                        {v \in db.villages :
                            v.name_uz = name /\ v.district = cmd.sample},
                        [id |-> nextId, name_uz |-> name, district |-> cmd.sample])
            IN  IF g.raised
                THEN Abort(cmd) /\ UNCHANGED nextId
                ELSE /\ db' = [db EXCEPT !.villages = g.rows]
                     /\ nextId' = IF g.created THEN nextId + 1 ELSE nextId
                     /\ cmd' = [cmd EXCEPT
                            !.i = @ + 1,
                            !.wrote = @ \/ g.created,
                            !.created.villages = IF g.created THEN @ + 1 ELSE @]
    /\ UNCHANGED <<settings, resolverVars, cacheVars, fixture, prev, runs>>

\* The transaction commits; lines 75-77: the success message.
PopulateCommit ==
    /\ cmd.pc = "commit"
    /\ cmd' = [cmd EXCEPT !.pc = "idle", !.out = @ \cup {"success"},
                          !.result = "ok"]
    /\ UNCHANGED <<settings, resolverVars, cacheVars, db, nextId, fixture, prev, runs>>

\* Where the code inside the transaction runs a query, reads a file or
\* commits, and so may raise (a database error, a fixture that does not parse
\* or lacks a key).
MayRaise(c) ==
    \/ c.pc = "regions" /\ region \in c.mtp
    \/ c.pc = "districts" /\ district \in c.mtp
    \/ c.pc = "villages" /\ village \in c.mtp
    \/ c.pc \in {"region_rows", "district_rows", "village_rows", "commit"}

\* Such an exception is raised: it leaves the transaction.
PopulateRaises ==
    /\ InTransaction(cmd)
    /\ MayRaise(cmd)
    /\ Abort(cmd)
    /\ UNCHANGED <<settings, resolverVars, cacheVars, nextId, fixture, prev, runs>>

Toshkent == "Toshkent"
Samarqand == "Samarqand"

DistrictData(name, region_name) == [name_uz |-> name, region_name_uz |-> region_name]

\* The fixture files: the regions and their districts (one district names a
\* region that is not among them); files that repeat a name; no files.
Fixtures ==
    {[regions |-> FixtureFile(<<[name_uz |-> Toshkent], [name_uz |-> Samarqand]>>),
      districts |-> FixtureFile(<<DistrictData("Bekobod", Toshkent),
                                  DistrictData("Nukus", "Xorazm"),
                                  DistrictData("Urgut", Samarqand)>>)],
     [regions |-> FixtureFile(<<[name_uz |-> Toshkent], [name_uz |-> Toshkent]>>),
      districts |-> FixtureFile(<<DistrictData("Bekobod", Toshkent),
                                  DistrictData("Bekobod", Toshkent)>>)],
     [regions |-> NoFixtureFile, districts |-> NoFixtureFile]}

\* The tables before the first run: empty; the one region of the tests; a
\* region of the fixture; with a district; with a village.
InitDbs ==
    {EmptyDb,
     [EmptyDb EXCEPT !.regions = {[id |-> 1, name_uz |-> "Test Region"]}],
     [EmptyDb EXCEPT !.regions = {[id |-> 1, name_uz |-> Toshkent]}],
     [EmptyDb EXCEPT !.regions = {[id |-> 1, name_uz |-> Toshkent]},
                     !.districts = {[id |-> 2, name_uz |-> "Bekobod", region |-> 1]}],
     [regions |-> {[id |-> 1, name_uz |-> Toshkent]},
      districts |-> {[id |-> 2, name_uz |-> "Bekobod", region |-> 1]},
      villages |-> {[id |-> 3, name_uz |-> "Mirobod", district |-> 2]}]}

AllIds(d) ==
    {r.id : r \in d.regions} \cup {x.id : x \in d.districts}
        \cup {v.id : v \in d.villages}

\* The models all enabled.
AllModels == (region :> 1) @@ (district :> 1) @@ (village :> 1)

\* UZBEKISTAN for the command: prepopulate enabled, disabled or absent; the
\* models all enabled, without village, or all disabled.
PopulateConfs ==
    {[k \in {"models", "prepopulate"} |->
        IF k = "models" THEN AllModels ELSE [enabled |-> 1]],
     [k \in {"models", "prepopulate"} |->
        IF k = "models" THEN (region :> 1) @@ (district :> 1) @@ (village :> 0)
                        ELSE [enabled |-> 1]],
     [k \in {"models", "prepopulate"} |->
        IF k = "models" THEN (region :> 0) @@ (district :> 0) @@ (village :> 0)
                        ELSE [enabled |-> 1]],
     [k \in {"models", "prepopulate"} |->
        IF k = "models" THEN AllModels ELSE [enabled |-> 0]],
     [k \in {"models"} |-> AllModels]}

PopulateSettings == {MissingRoot} \cup {DictRoot(c) : c \in PopulateConfs}

InitPopulate ==
    /\ settings \in PopulateSettings
    /\ db \in InitDbs
    /\ nextId = Cardinality(AllIds(db)) + 1
    /\ fixture \in Fixtures
    /\ cmd = NoRun
    /\ prev = Summary(NoRun)
    /\ runs = 0
    /\ ResolverUnused
    /\ CacheUnused

NextPopulate ==
    \/ PopulateHandle
    \/ PopulateRegions
    \/ PopulateRegionRow
    \/ PopulateDistricts
    \/ PopulateDistrictRow
    \/ PopulateVillages
    \/ PopulateVillageRow
    \/ PopulateCommit
    \/ PopulateRaises

SpecPopulate == InitPopulate /\ [][NextPopulate]_vars

---------------------------------------------------------------------------
(* Operations on the resolver and the importer.                            *)

\* A call of get_enabled_models().
GetEnabledModels ==
    LET r == get_enabled_models(settings, memoModels)
    IN  /\ memoModels' = r.memo
        /\ basisModels' = Observe(basisModels, settings, r.out)
        /\ last' = [op |-> "get_enabled_models", out |-> r.out, hit |-> r.hit]
        /\ UNCHANGED <<settings, memoViews, basisViews, cacheVars, dbVars>>

\* A call of get_enabled_views().
GetEnabledViews ==
    LET r == get_enabled_views(settings, memoViews)
    IN  /\ memoViews' = r.memo
        /\ basisViews' = Observe(basisViews, settings, r.out)
        /\ last' = [op |-> "get_enabled_views", out |-> r.out, hit |-> r.hit]
        /\ UNCHANGED <<settings, memoModels, basisModels, cacheVars, dbVars>>

NoneValue == [py |-> "None"]            \* no default given: default=None
DefaultString == [py |-> "'default'"]   \* default='default'

\* A call of get_uzbekistan_setting(setting_name, default).
GetUzbekistanSetting ==
    \E setting_name \in {"models", "views", "missing_setting"},
       default \in {NoneValue, DefaultString} :
        /\ last' = [op |-> "get_uzbekistan_setting", name |-> setting_name,
                    default |-> default,
                    out |-> get_uzbekistan_setting(settings, setting_name, default)]
        /\ UNCHANGED <<settings, memoModels, memoViews, basisModels, basisViews,
                       cacheVars, dbVars>>

\* list(import_conditional_classes(module_name, class_type)).
ImportConditionalClasses ==
    \E module_name \in ModuleNames, class_type \in ClassTypes :
        \E r \in import_conditional_classes(settings, memoModels, memoViews,
                                            module_name, class_type) :
            LET imported == ModuleTable[module_name].import = "ok"
                viewsCalled == imported /\ class_type = "views"
                modelsCalled == imported /\ (class_type # "views"
                                             \/ settings.kind = "dict")
            IN  /\ memoModels' = r.memoModels
                /\ memoViews' = r.memoViews
                /\ basisViews' =
                        IF viewsCalled
                        THEN Observe(basisViews, settings,
                                     get_enabled_views(settings, memoViews).out)
                        ELSE basisViews
                /\ basisModels' =
                        IF modelsCalled
                        THEN Observe(basisModels, settings,
                                     get_enabled_models(settings, memoModels).out)
                        ELSE basisModels
                /\ last' = [op |-> "import_conditional_classes",
                            module |-> module_name, class_type |-> class_type,
                            out |-> r.out, yielded |-> r.yielded]
                /\ UNCHANGED <<settings, cacheVars, dbVars>>

\* get_enabled_models.cache_clear()
CacheClearModels ==
    /\ memoModels' = EmptyMemo
    /\ basisModels' = EmptyHistory
    /\ last' = NoCall
    /\ UNCHANGED <<settings, memoViews, basisViews, cacheVars, dbVars>>

\* get_enabled_views.cache_clear()
CacheClearViews ==
    /\ memoViews' = EmptyMemo
    /\ basisViews' = EmptyHistory
    /\ last' = NoCall
    /\ UNCHANGED <<settings, memoModels, basisModels, cacheVars, dbVars>>

\* The resolver and the importer under one configuration: the configuration
\* is an input, drawn at the start.
Init ==
    /\ settings \in ResolverSettings
    /\ memoModels = EmptyMemo
    /\ memoViews = EmptyMemo
    /\ basisModels = EmptyHistory
    /\ basisViews = EmptyHistory
    /\ last = NoCall
    /\ CacheUnused
    /\ DbUnused

Next ==
    \/ GetEnabledModels
    \/ GetEnabledViews
    \/ GetUzbekistanSetting
    \/ ImportConditionalClasses

Spec == Init /\ [][Next]_vars

---------------------------------------------------------------------------
(* The resolvers under configuration changes and invalidations.            *)

\* The configurations a running process moves between.
MemoSettings ==
    {MissingRoot,
     DictRoot(<<>>),
     DictRoot([k \in {"models", "views"} |->
        IF k = "models" THEN (region :> 1) @@ (District :> 0)
                        ELSE (region :> 1) @@ (VILLAGE :> 1)]),
     DictRoot([k \in {"models", "views"} |->
        IF k = "models" THEN (region :> 0) @@ (District :> 1) @@ (village :> 1)
                        ELSE (district :> 1) @@ (VILLAGE :> 0)])}

\* The host application (or override_settings in a test) replaces UZBEKISTAN.
ConfigChange ==
    /\ settings' \in MemoSettings \ {settings}
    /\ last' = NoCall
    /\ UNCHANGED <<memoModels, memoViews, basisModels, basisViews, cacheVars, dbVars>>

InitMemo ==
    /\ settings \in MemoSettings
    /\ memoModels = EmptyMemo
    /\ memoViews = EmptyMemo
    /\ basisModels = EmptyHistory
    /\ basisViews = EmptyHistory
    /\ last = NoCall
    /\ CacheUnused
    /\ DbUnused

NextMemo ==
    \/ ConfigChange
    \/ CacheClearModels
    \/ CacheClearViews
    \/ GetEnabledModels
    \/ GetEnabledViews

SpecMemo == InitMemo /\ [][NextMemo]_vars

\* ======================= CLAIMS =======================
---------------------------------------------------------------------------
(* Expected values, written out as a test would write them.                *)

\* The lower-case form of every name of the model.
LowerCased ==
    (region :> region) @@ (district :> district) @@ (village :> village) @@
    (District :> district) @@ (VILLAGE :> village) @@
    (Region :> region) @@ (Village :> village)

\* The conventional view class of an item.
ConventionalClass ==
    (region :> RegionListAPIView) @@ (district :> DistrictListAPIView) @@
    (village :> VillageListAPIView)

\* The flags under `key` of the root object s (none when the mapping is absent).
FlagsOf(s, key) ==
    IF s.kind = "dict" /\ key \in DOMAIN s.conf THEN s.conf[key] ELSE <<>>

\* The lower-cased keys of the mapping under `key` whose flag is truthy.
ExpectedEnabled(s, key) ==
    {LowerCased[k] : k \in {n \in DOMAIN FlagsOf(s, key) : FlagsOf(s, key)[n] # 0}}

IsImport(class_type) ==
    /\ last.op = "import_conditional_classes"
    /\ last.class_type = class_type

\* C1: no class yielded by import_conditional_classes(module, 'views') has a
\* model whose lower-cased name is outside the enabled-model set, whatever the
\* view flags are.
C1_NoViewOfDisabledModel ==
    IsImport("views") =>
        \A i \in 1..Len(last.yielded) :
            LowerCased[last.yielded[i].model] \in ExpectedEnabled(settings, "models")

\* C1 witness: all three views enabled, the district model disabled: the region
\* and village views are yielded, the district view is not.
C1_Witness ==
    /\ IsImport("views")
    /\ last.module = "uzbekistan.views"
    /\ ExpectedEnabled(settings, "views") = {region, district, village}
    /\ ExpectedEnabled(settings, "models") = {region, village}
    /\ Len(last.yielded) = 2

IsFirstCall(op) == last.op = op /\ ~last.hit

\* C2: an un-memoized call of get_enabled_models() / get_enabled_views() returns
\* exactly the lower-cased keys of the models / views mapping whose flag is
\* truthy; the empty set when the mapping is absent.
C2_EnabledSets ==
    /\ (IsFirstCall("get_enabled_models") /\ settings.kind = "dict") =>
            /\ last.out.status = "return"
            /\ last.out.value = ExpectedEnabled(settings, "models")
            /\ ("models" \notin DOMAIN settings.conf => last.out.value = {})
    /\ (IsFirstCall("get_enabled_views") /\ settings.kind = "dict") =>
            /\ last.out.status = "return"
            /\ last.out.value = ExpectedEnabled(settings, "views")
            /\ ("views" \notin DOMAIN settings.conf => last.out.value = {})

\* C2 witness: models {region: False, District: True, village: True} gives
\* {district, village}.
C2_Witness ==
    /\ IsFirstCall("get_enabled_models")
    /\ settings.kind = "dict"
    /\ "models" \in DOMAIN settings.conf
    /\ settings.conf["models"] = (region :> 0) @@ (District :> 1) @@ (village :> 1)
    /\ last.out.value = {district, village}

\* The classes the claim C3 describes, for the module and configuration of the
\* last import: one per enabled view whose conventional class exists with a
\* model that is enabled.
C3_Expected ==
    LET attrs == ModuleTable[last.module].attrs
    IN  {[attr |-> ConventionalClass[it], model |-> attrs[ConventionalClass[it]].modelName] :
            it \in {x \in ExpectedEnabled(settings, "views") :
                        /\ ConventionalClass[x] \in DOMAIN attrs
                        /\ attrs[ConventionalClass[x]].hasModel
                        /\ attrs[ConventionalClass[x]].hasName
                        /\ LowerCased[attrs[ConventionalClass[x]].modelName]
                                \in ExpectedEnabled(settings, "models")}}

C3_Case ==
    /\ IsImport("views")
    /\ settings.kind = "dict"
    /\ ModuleTable[last.module].import = "ok"

Yielded == {last.yielded[i] : i \in 1..Len(last.yielded)}

\* C3 as stated: for every configuration and module the yielded sequence holds
\* exactly the qualifying classes, each once.
C3_Original ==
    C3_Case =>
        /\ Yielded = C3_Expected
        /\ Len(last.yielded) = Cardinality(C3_Expected)

\* C3 amended: when the generator ends without an error the yielded sequence
\* holds exactly the qualifying classes, each once; when it ends in an error
\* (a class whose model attribute has no __name__) the error is
\* DynamicImportError and what was yielded before it is a duplicate-free part
\* of the qualifying classes.
C3_ExactlyQualifying ==
    C3_Case =>
        /\ Yielded \subseteq C3_Expected
        /\ Len(last.yielded) = Cardinality(Yielded)
        /\ last.out.status = "return" => Yielded = C3_Expected
        /\ last.out.status = "raise" => last.out.exc = "DynamicImportError"

\* C3 witness: all three enabled gives the three classes.
C3_Witness ==
    /\ C3_Case
    /\ last.module = "uzbekistan.views"
    /\ last.out.status = "return"
    /\ ExpectedEnabled(settings, "models") = {region, district, village}
    /\ Len(last.yielded) = 3

\* C4: consuming import_conditional_classes for a module that cannot be
\* imported ends in DynamicImportError with nothing yielded, for every class
\* category and configuration.
C4_ImportFailureIsDynamicImportError ==
    (last.op = "import_conditional_classes"
        /\ ModuleTable[last.module].import # "ok") =>
            /\ last.out = Raise("DynamicImportError")
            /\ last.yielded = <<>>

IsGetSetting == last.op = "get_uzbekistan_setting"

\* C5: get_uzbekistan_setting raises ImproperlyConfigured when the root object
\* is missing or None, whatever the default; otherwise it returns the stored
\* value, or the default when the name is absent.
C5_SettingOrConfigurationError ==
    IsGetSetting =>
        /\ settings.kind \in {"missing", "none"} =>
                last.out = Raise("ImproperlyConfigured")
        /\ settings.kind = "dict" =>
                /\ last.out.status = "return"
                /\ last.name \in DOMAIN settings.conf =>
                        last.out.value = settings.conf[last.name]
                /\ last.name \notin DOMAIN settings.conf =>
                        last.out.value = last.default

\* C5 witness: the root object is None and a default is passed: the call raises.
C5_Witness ==
    /\ IsGetSetting
    /\ settings.kind = "none"
    /\ last.default = DefaultString
    /\ last.out.status = "raise"

IsResolverCall == last.op \in {"get_enabled_models", "get_enabled_views"}

\* The history and the mapping key of the resolver that was called last.
HistoryOfLast == IF last.op = "get_enabled_models" THEN basisModels ELSE basisViews
KeyOfLast == IF last.op = "get_enabled_models" THEN "models" ELSE "views"

\* C8 as stated: a call returns the set computed from the configuration that
\* was current at the first call after the most recent invalidation (or after
\* process start).
C8_Original ==
    (IsResolverCall /\ last.out.status = "return") =>
        /\ HistoryOfLast.call.known
        /\ HistoryOfLast.call.settings.kind = "dict"
        /\ last.out.value = ExpectedEnabled(HistoryOfLast.call.settings, KeyOfLast)

\* C8 amended: a call that returns returns the set computed from the
\* configuration that was current at the first call that returned after the
\* most recent invalidation (a call that raised ImproperlyConfigured is not
\* memoized); a call that misses the memo reads the current configuration.
C8_MemoizedUntilInvalidated ==
    IsResolverCall =>
        /\ last.out.status = "return" =>
                /\ HistoryOfLast.ret.known
                /\ HistoryOfLast.ret.settings.kind = "dict"
                /\ last.out.value = ExpectedEnabled(HistoryOfLast.ret.settings, KeyOfLast)
        /\ (~last.hit /\ last.out.status = "return") =>
                last.out.value = ExpectedEnabled(settings, KeyOfLast)
        /\ last.out.status = "raise" => settings.kind # "dict"

\* C8 witness: a call served from the memo after the configuration changed:
\* the value returned is not the one the current configuration gives.
C8_Witness ==
    /\ last.op = "get_enabled_models"
    /\ last.hit
    /\ settings.kind = "dict"
    /\ basisModels.ret.settings # settings
    /\ last.out.value # ExpectedEnabled(settings, "models")

\* The cache sub-configuration is supplied with a truthy / falsy "enabled".
SuppliedCache(flag) ==
    /\ settings.kind = "dict"
    /\ "cache" \in DOMAIN settings.conf
    /\ "enabled" \in DOMAIN settings.conf["cache"]
    /\ (settings.conf["cache"].enabled # 0) = flag

\* The thread's call of get_cache_settings() has ended.
Finished(t) == threads[t].pc = "idle" /\ threads[t].out.status # "none"

RoundTrip == <<"set", "get", "delete">>

\* C6: with the cache enabled, get_cache_settings() returns the settings only
\* after a sentinel round trip that succeeded; a value read back that differs
\* or a backend operation that raises ends the call in
\* CacheIncorrectlyConfigured; with the cache disabled the backend is not
\* touched and the settings are returned. (A call served from the lru_cache
\* slot makes no round trip: the slot is filled only after one succeeded.)
C6_HealthCheckGatesSettings ==
    /\ (SuppliedCache(TRUE) /\ memoCache.full) => passed
    /\ \A t \in Threads :
        /\ (SuppliedCache(TRUE) /\ Finished(t)) =>
            /\ threads[t].out.status = "return" =>
                    /\ threads[t].out.value = settings.conf["cache"]
                    /\ ~threads[t].hit =>
                            /\ threads[t].ops = RoundTrip
                            /\ threads[t].failed = "none"
                            /\ threads[t].data = "alive"
            /\ (~threads[t].hit
                    /\ (threads[t].failed # "none" \/ threads[t].data = "None")) =>
                    threads[t].out = Raise("CacheIncorrectlyConfigured")
            /\ threads[t].out.status = "raise" =>
                    threads[t].out.exc = "CacheIncorrectlyConfigured"
        /\ SuppliedCache(FALSE) =>
            /\ threads[t].ops = <<>>
            /\ Finished(t) => threads[t].out = Return(settings.conf["cache"])

\* C6 witness: the backend stores nothing (DummyCache): the round trip is made,
\* None is read back and the call ends in CacheIncorrectlyConfigured.
C6_Witness ==
    \E t \in Threads :
        /\ SuppliedCache(TRUE)
        /\ Finished(t)
        /\ threads[t].ops = RoundTrip
        /\ threads[t].data = "None"
        /\ threads[t].out = Raise("CacheIncorrectlyConfigured")

\* No cache sub-configuration is supplied.
NoCacheSubConfig == settings.kind = "dict" /\ "cache" \notin DOMAIN settings.conf

\* C7 as stated: with no cache sub-configuration the settings returned are
\* {enabled: false, timeout: 3600} and no round trip is made.
C7_Original ==
    \A t \in Threads :
        (NoCacheSubConfig /\ Finished(t) /\ ~threads[t].hit) =>
            /\ threads[t].out = Return([enabled |-> 0, timeout |-> 3600])
            /\ threads[t].ops = <<>>

\* C7 amended: with no cache sub-configuration the default is
\* {enabled: true, timeout: 3600, key_prefix: "uzbekistan"}: the round trip is
\* made, and these settings are returned when it succeeds
\* (CacheIncorrectlyConfigured otherwise).
C7_DefaultIsEnabled ==
    \A t \in Threads :
        (NoCacheSubConfig /\ Finished(t) /\ ~threads[t].hit) =>
            /\ threads[t].ops # <<>>
            /\ threads[t].out.status = "return" =>
                    /\ threads[t].out.value =
                            [enabled |-> 1, timeout |-> 3600, key_prefix |-> "uzbekistan"]
                    /\ threads[t].ops = RoundTrip
            /\ threads[t].out.status = "raise" =>
                    threads[t].out.exc = "CacheIncorrectlyConfigured"

\* C7 witness: an un-memoized call with no cache sub-configuration that made
\* the round trip and returned.
C7_Witness ==
    \E t \in Threads :
        /\ NoCacheSubConfig
        /\ Finished(t)
        /\ ~threads[t].hit
        /\ threads[t].ops = RoundTrip
        /\ threads[t].out.status = "return"

\* The run of the populate command has ended.
RunEnded == cmd.pc = "idle" /\ cmd.result # "none"

\* C9 as stated: if an exception is raised at any point inside the populate
\* transaction, the tables are as before the command started and the command
\* ends in CommandError without the success message.
C9_Original ==
    (RunEnded /\ cmd.raised) =>
        /\ db = cmd.snapshot
        /\ cmd.result = "CommandError"
        /\ "success" \notin cmd.out

\* C9 amended: if an exception leaves the populate transaction (any but the
\* Region.DoesNotExist that populate_districts catches row by row), the tables
\* are as before the command started and the command ends in CommandError
\* without the success message; a run that ends otherwise let none escape.
C9_AtomicOnEscape ==
    RunEnded =>
        /\ cmd.escaped =>
            /\ db = cmd.snapshot
            /\ cmd.result = "CommandError"
            /\ "success" \notin cmd.out
        /\ cmd.result = "CommandError" => cmd.escaped

\* C9 witness: the run had deleted or created rows when the exception left the
\* transaction, and the tables, not empty, are as they were.
C9_Witness ==
    /\ RunEnded
    /\ cmd.escaped
    /\ cmd.wrote
    /\ cmd.snapshot.regions # {}
    /\ db = cmd.snapshot

ExistWarnings == {"regions_exist", "districts_exist", "villages_exist"}

\* The run summarised by r was made without --force.
Unforced(r) == r.result # "none" /\ ~r.force

QuietCase(r) ==
    /\ Unforced(r)
    /\ r.mtp # {}
    /\ r.mtp \subseteq r.pre
    /\ r.result # "CommandError"

RegionNames(d) == {r.name_uz : r \in d.regions}

\* The name of the region a district row refers to.
RegionNameOf(d, x) == (CHOOSE r \in d.regions : r.id = x.region).name_uz

\* The rows of entity e were replaced by this run: no row from before the run
\* is left, and the table holds exactly the rows this run created from the
\* fixture data (for villages, the sample villages of the first district).
Replaced(e) ==
    IF e = region
    THEN /\ db.regions \cap cmd.snapshot.regions = {}
         /\ RegionNames(db) =
                {fixture.regions.rows[i].name_uz : i \in DOMAIN fixture.regions.rows}
         /\ Cardinality(db.regions) = cmd.created.regions
    ELSE IF e = district
    THEN /\ db.districts \cap cmd.snapshot.districts = {}
         /\ {<<x.name_uz, RegionNameOf(db, x)>> : x \in db.districts} =
                {<<fixture.districts.rows[i].name_uz,
                   fixture.districts.rows[i].region_name_uz>> :
                    i \in {j \in DOMAIN fixture.districts.rows :
                            fixture.districts.rows[j].region_name_uz
                                \in RegionNames(db)}}
         /\ Cardinality(db.districts) = cmd.created.districts
    ELSE /\ db.villages \cap cmd.snapshot.villages = {}
         /\ {<<v.name_uz, v.district>> : v \in db.villages} =
                IF db.districts = {} THEN {}
                ELSE {<<SampleVillages[i], cmd.sample>> : i \in DOMAIN SampleVillages}
         /\ Cardinality(db.villages) = cmd.created.villages

\* A forced run on a database that already held rows has ended.
ForcedRunEnded == RunEnded /\ cmd.force /\ NonEmpty(cmd.snapshot) # {}

\* C11 as stated: for every database that already holds rows and every
\* prepopulate setting, a run with --force reports success and the rows of
\* each populated entity are replaced.
C11_Original ==
    ForcedRunEnded =>
        /\ cmd.result = "ok" /\ "success" \in cmd.out
        /\ \A e \in cmd.mtp : Replaced(e)

\* The fixture file entity e is loaded from exists (villages need none).
HasFixture(e) ==
    \/ e = region /\ fixture.regions.exists
    \/ e = district /\ fixture.districts.exists
    \/ e = village

\* C11 amended: a forced run on a database that already holds rows never stops
\* at the prepopulate flag; it reports success exactly when some selected model
\* is enabled and no exception leaves the transaction, and then the rows of
\* every populated entity whose fixture file exists are replaced.
C11_ForceReplaces ==
    ForcedRunEnded =>
        /\ "disabled" \notin cmd.out
        /\ (cmd.result = "ok" /\ "success" \in cmd.out)
                <=> (cmd.mtp # {} /\ ~cmd.escaped)
        /\ cmd.result = "ok" => \A e \in cmd.mtp : HasFixture(e) => Replaced(e)

\* A forced run with prepopulate disabled replaced regions, districts and
\* villages that existed before.
C11_Witness ==
    /\ ForcedRunEnded
    /\ cmd.result = "ok"
    /\ cmd.mtp = {region, district, village}
    /\ PrepopulateEnabled(settings) = Return(0)
    /\ NonEmpty(cmd.snapshot) = {region, district, village}
    /\ NonEmpty(db) = {region, district, village}
    /\ fixture.regions.exists /\ fixture.districts.exists

\* ---- C12 ----

\* UZBEKISTAN exists and its prepopulate mapping is absent, has no 'enabled'
\* key, or has a false one.
PrepopulateOff ==
    /\ settings.kind = "dict"
    /\ \/ "prepopulate" \notin DOMAIN settings.conf
       \/ "enabled" \notin DOMAIN settings.conf.prepopulate
       \/ ~Truthy(settings.conf.prepopulate.enabled)

BadRows ==
    {i \in DOMAIN fixture.districts.rows :
        fixture.districts.rows[i].region_name_uz \notin RegionNames(db)}

\* C13: in the district loop a fixture row whose region does not exist gives a
\* warning and no district, and the loop goes on; when the loop has ended and
\* nothing else raised, the command ends without an error, and the committed
\* district table holds a district for every other row, before and after the
\* failing one, and none for the failing row.
C13_MissingRegionSkipsRowOnly ==
    /\ (cmd.pc = "district_rows" /\ \E i \in BadRows : i < cmd.i) =>
            /\ "region_not_found" \in cmd.out
            /\ ~cmd.escaped /\ cmd.result = "none"
    /\ (RunEnded /\ "created_districts" \in cmd.out /\ BadRows # {}
            /\ ~cmd.escaped) =>
            /\ "region_not_found" \in cmd.out
            /\ cmd.result = "ok" /\ "success" \in cmd.out
            /\ Replaced(district)

\* A run skipped the middle row of the fixture and committed the districts of
\* the rows before and after it.
C13_Witness ==
    /\ RunEnded /\ cmd.result = "ok"
    /\ "region_not_found" \in cmd.out
    /\ BadRows = {2}
    /\ cmd.created.districts = 2
    /\ {x.name_uz : x \in db.districts} = {"Bekobod", "Urgut"}

\* ---- C14 ----

\* name_uz is unique among the regions, and among the districts of a region.
UniqueNames(d) ==
    /\ \A r1, r2 \in d.regions : r1.name_uz = r2.name_uz => r1 = r2
    /\ \A x1, x2 \in d.districts :
            (x1.name_uz = x2.name_uz /\ x1.region = x2.region) => x1 = x2

\* C14: from a database where it holds, after any sequence of runs (and at
\* every step of them) no two regions share a name_uz and no two districts of
\* one region share a name_uz.
C14_UniqueNames == UniqueNames(db)

\* Two runs, one of them forced, with fixtures that repeat a region name and
\* a district name: one region and one district were created from them.
C14_Witness ==
    /\ RunEnded /\ runs = 2 /\ cmd.result = "ok"
    /\ cmd.force # prev.force
    /\ Len(fixture.regions.rows) = 2
    /\ fixture.regions.rows[1] = fixture.regions.rows[2]
    /\ fixture.districts.rows[1] = fixture.districts.rows[2]
    /\ cmd.created.regions = 1 /\ cmd.created.districts = 1
    /\ Cardinality(db.regions) = 1 /\ Cardinality(db.districts) = 1

\* ---- C15 ----

\* The cache sub-configuration is supplied without an 'enabled' key.
CacheWithoutEnabled ==
    /\ settings.kind = "dict"
    /\ "cache" \in DOMAIN settings.conf
    /\ "enabled" \notin DOMAIN settings.conf["cache"]

\* C15: a cache sub-configuration without an 'enabled' key is treated as a
\* disabled cache: get_cache_settings() makes no health check and returns the
\* sub-configuration without raising.
C15_AbsentEnabledIsDisabled ==
    \A t \in Threads :
        (CacheWithoutEnabled /\ Finished(t)) =>
            /\ threads[t].ops = <<>>
            /\ threads[t].out = Return(settings.conf["cache"])

\* ---- C16 ----

\* The cache is enabled: by the sub-configuration supplied, or by the default
\* when none is supplied.
CacheEnabled == SuppliedCache(TRUE) \/ NoCacheSubConfig

\* C16: with a backend that works from start to end and the cache enabled, no
\* call of get_cache_settings() ends in CacheIncorrectlyConfigured, whatever
\* the interleaving of two threads' set / get / delete steps.
C16_WorkingBackendNeverMisconfigured ==
    \A t \in Threads :
        (CacheEnabled /\ Finished(t)) =>
            threads[t].out # Raise("CacheIncorrectlyConfigured")

\* ---- C17 ----

\* The settings get_cache_settings() returns when the cache is enabled.
EnabledSettings ==
    IF NoCacheSubConfig THEN DefaultCacheSettings ELSE settings.conf["cache"]

\* Thread t calls get_cache_settings() in this step.
CallsNow(t) == threads[t].pc = "idle" /\ threads'[t] # threads[t]

\* C17: with the cache enabled, the memo slot is full exactly when a call has
\* returned since the last cache_clear(); a call made while it is full returns
\* the memoized settings without touching the backend, whatever the backend's
\* state; a call made while it is empty (none returned yet, or the earlier ones
\* raised) goes on to the sentinel round trip.
C17_CheckOnlyUntilFirstSuccess ==
    [][CacheEnabled =>
        /\ memoCache.full <=> passed
        /\ \A t \in Threads : CallsNow(t) =>
            /\ threads'[t].hit <=> passed
            /\ passed =>
                /\ threads'[t].out = Return(EnabledSettings)
                /\ threads'[t].pc = "idle"
                /\ threads'[t].ops = <<>>
                /\ store' = store
            /\ ~passed =>
                /\ threads'[t].pc = "set"
                /\ threads'[t].out.status = "none"]_vars

\* A call was served from the memo while the backend is down, and before it
\* the other thread's call made the round trip.
C17_Witness ==
    \E t, u \in Threads :
        /\ CacheEnabled /\ backend = "down"
        /\ threads[t].hit /\ threads[t].out = Return(EnabledSettings)
        /\ threads[u].ops = RoundTrip /\ threads[u].out.status = "return"
        /\ passed

====
